---- MODULE Spec2Model ----
(***************************************************************************)
(* Connection lifecycle of the SFTP+ extension: the ConnectionManager      *)
(* (file.browser.provider.ts), the rclone mount processes it spawns and    *)
(* the host's drive table.  Connection objects live in a heap, because the *)
(* asynchronous operations keep a reference to the object they fetched     *)
(* from the map while refresh() and updateConnection() put new objects     *)
(* into the map.                                                           *)
(***************************************************************************)
EXTENDS Bags, FiniteSets, Integers, Sequences, TLC

\* ------------------------------------------------------------------ bounds
Names == {"A", "B"}
MaxTasks == 2
MaxSpawns == 2
MaxCalls == 3
MaxUpdates == 1
MaxLen == 2

\* --------------------------------------------------------------- constants
HEALTH_CHECK_MAX_FAILURES == 3
RC_BASE_PORT == 5572
DRIVE_LETTERS ==
  <<"Z", "Y", "X", "W", "V", "U", "T", "S", "R", "Q", "P", "O",
    "N", "M", "L", "K", "J", "I", "H", "G", "F", "E", "D", "C">>
Alphabet ==
  <<"A", "B", "C", "D", "E", "F", "G", "H", "I", "J", "K", "L", "M",
    "N", "O", "P", "Q", "R", "S", "T", "U", "V", "W", "X", "Y", "Z">>

Disconnected == "disconnected"
Connecting == "connecting"
Connected == "connected"
Disconnecting == "disconnecting"
Error == "error"

ObjIds == 1 .. (2 * Cardinality(Names) + MaxTasks + 1)

VARIABLES
  connections,   \* the Map name -> Connection, as <<[name, obj]>> in insertion order
  heap,          \* the Connection objects, by reference
  wsFile,        \* .vscode/sftp_plus.json: the connections array
  globalCfg,     \* settings key sftp-plus.connections
  vault,         \* SecretStorage: name -> password ("" is absent)
  procs,         \* rclone processes spawned so far: pid -> [drive, state]
  external,      \* drive letters the host holds that are not ours
  workspaceFolders, \* how many folders the window has open
  tasks,         \* suspended asynchronous operations (a bag)
  health,        \* the suspended health-check tick, if any
  calls,         \* how many operations the user has called
  updates,       \* how many of them were updateConnection
  last           \* what the last step did: operation, name, outcome, notification

\* the process ids handed out so far and still to hand out
Pids == DOMAIN procs

vars == <<connections, heap, wsFile, globalCfg, vault, procs, external, workspaceFolders, tasks, health, calls, updates, last>>

\* ---------------------------------------------------------------- the Map
Has(m, n) == \E i \in DOMAIN m : m[i].name = n
Ref(m, n) == m[CHOOSE i \in DOMAIN m : m[i].name = n].obj
MapSet(m, n, o) ==
  IF Has(m, n)
  THEN [i \in DOMAIN m |-> IF m[i].name = n THEN [name |-> n, obj |-> o] ELSE m[i]]
  ELSE Append(m, [name |-> n, obj |-> o])
MapDelete(m, n) == SelectSeq(m, LAMBDA e : e.name # n)
MapObjs(m) == {m[i].obj : i \in DOMAIN m}
Entry(n) == heap[Ref(connections, n)]

\* ------------------------------------------------------------ the objects
NewConnection(cfg, scope, source) ==
  [config |-> cfg, status |-> Disconnected, scope |-> scope, passwordSource |-> source,
   mountedDrive |-> "", processId |-> 0, rcPort |-> 0, error |-> "",
   healthCheckFailCount |-> 0]

Range(s) == {s[i] : i \in DOMAIN s}
TaskObjs(tsks) == {t.obj : t \in BagToSet(tsks)}
Live(conns, tsks, hlth) == MapObjs(conns) \cup TaskObjs(tsks) \cup Range(hlth.queue)
\* objects nothing refers to any more are dropped
Collect(h, conns, tsks, hlth) ==
  [o \in DOMAIN h \cap Live(conns, tsks, hlth) |-> h[o]]

\* ---------------------------------------------------------- host and rclone
Running(p) == procs[p].state \in {"starting", "mounted"}
HostDrives == external \cup {procs[p].drive : p \in {q \in Pids : procs[q].state = "mounted"}}
Spawned == {p \in Pids : procs[p].state # "none"}
LetterIndex(l) == CHOOSE i \in DOMAIN Alphabet : Alphabet[i] = l
RcPortOf(l) == RC_BASE_PORT + (LetterIndex(l) - 1)
PortAnswers(port) == \E p \in Pids : Running(p) /\ RcPortOf(procs[p].drive) = port

DriveExists(l) == l \in HostDrives
FindAvailableDrive ==
  LET free == {i \in DOMAIN DRIVE_LETTERS : ~DriveExists(DRIVE_LETTERS[i])}
  IN IF free = {} THEN ""
     ELSE DRIVE_LETTERS[CHOOSE i \in free : \A j \in free : i <= j]

\* ------------------------------------------------------------ the workspace
HasWorkspace == workspaceFolders > 0

\* a workspace file that does not parse holds this in place of its first
\* entry; what follows it is text that is never read
Unparsable == [name |-> "", driveLetter |-> "", password |-> ""]
\* a reader that takes every file as it comes
LoadWorkspaceUnguarded(file) == file
\* loadWorkspaceConfigs: the configs of the file, or none when reading it throws
LoadWorkspaceConfigs(file) ==
  IF file # <<>> /\ Head(file) = Unparsable THEN <<>> ELSE file

\* --------------------------------------------------------- password lookup
PasswordIn(ws, n) ==
  LET idx == {i \in DOMAIN LoadWorkspaceConfigs(ws) : ws[i].name = n /\ ws[i].password # ""}
  IN IF idx = {} THEN ""
     ELSE ws[CHOOSE i \in idx : \A j \in idx : j <= i].password
PasswordsInFile(n) == PasswordIn(wsFile, n)
\* a lookup that takes the file's password whatever the scope of the entry
GetPasswordAnyScope(n) ==
  IF PasswordsInFile(n) # "" THEN PasswordsInFile(n) ELSE vault[n]
GetPassword(n) ==
  IF Has(connections, n) /\ Entry(n).scope = "workspace" /\ PasswordsInFile(n) # ""
  THEN PasswordsInFile(n)
  ELSE vault[n]

\* CredentialManager: the vault's entry under a name
\* a store that writes nothing
StoreNothing(v, n, pw) == v
StorePasswordIn(v, n, pw) == [v EXCEPT ![n] = pw]
DeletePasswordIn(v, n) == [v EXCEPT ![n] = ""]

\* ------------------------------------------------------------------- tasks
Cfg(n, letter, pw) == [name |-> n, driveLetter |-> letter, password |-> pw]
NoCfg == Cfg("", "", "")
Task(kind, n, o, pc, drive, pid) ==
  [kind |-> kind, name |-> n, obj |-> o, pc |-> pc, drive |-> drive, pid |-> pid,
   cfg |-> NoCfg, scope |-> "", queue |-> <<>>, password |-> ""]
Add(tsks, t) == tsks (+) SetToBag({t})
Remove(tsks, t) == tsks (-) SetToBag({t})
Idle == [active |-> FALSE, queue |-> <<>>, port |-> 0, hasChanges |-> FALSE]
Did(op, n, result, fired) == [op |-> op, name |-> n, result |-> result, fired |-> fired]

\* ------------------------------------------------------------ construction
\* loadConnectionConfigs: the Connected entries keep status, drive and pid;
\* everything else of the old objects is dropped
ConnectedStates(conns, h) ==
  {n \in Names : Has(conns, n) /\ h[Ref(conns, n)].status = Connected}
Restore(c, conns, h) ==
  IF c.config.name \in ConnectedStates(conns, h)
  THEN [c EXCEPT !.status = Connected,
                 !.mountedDrive = h[Ref(conns, c.config.name)].mountedDrive,
                 !.processId = h[Ref(conns, c.config.name)].processId]
  ELSE c
WsHasPassword(ws, n) == \E i \in DOMAIN ws : ws[i].name = n /\ ws[i].password # ""
\* the objects the loader creates, in the order the Map holds them; a later
\* workspace entry of the same name replaces the earlier one in place
RECURSIVE LoadWorkspace(_, _, _, _, _)
LoadWorkspace(ws, i, conns, h, acc) ==
  IF i > Len(ws) THEN acc
  ELSE LET cfg == ws[i]
           c == Restore(NewConnection(cfg, "workspace",
                          IF WsHasPassword(ws, cfg.name) THEN "workspace" ELSE "none"),
                        conns, h)
           at == {j \in DOMAIN acc : acc[j].config.name = cfg.name}
       IN LoadWorkspace(ws, i + 1, conns, h,
                        IF at = {} THEN Append(acc, c)
                        ELSE [j \in DOMAIN acc |-> IF j \in at THEN c ELSE acc[j]])
\* a global loop that sets its entry whether or not the name is taken
RECURSIVE LoadGlobalOverwrites(_, _, _, _, _)
LoadGlobalOverwrites(gl, i, conns, h, acc) ==
  IF i > Len(gl) THEN acc
  ELSE LET cfg == gl[i]
           c == Restore(NewConnection(cfg, "global", "none"), conns, h)
           at == {j \in DOMAIN acc : acc[j].config.name = cfg.name}
       IN LoadGlobalOverwrites(gl, i + 1, conns, h,
                               IF at = {} THEN Append(acc, c)
                               ELSE [j \in DOMAIN acc |-> IF j \in at THEN c ELSE acc[j]])
RECURSIVE LoadGlobal(_, _, _, _, _)
LoadGlobal(gl, i, conns, h, acc) ==
  IF i > Len(gl) THEN acc
  ELSE LET cfg == gl[i]
           c == Restore(NewConnection(cfg, "global", "none"), conns, h)
       IN LoadGlobal(gl, i + 1, conns, h,
                     IF \E j \in DOMAIN acc : acc[j].config.name = cfg.name
                     THEN acc ELSE Append(acc, c))
LoadConnectionConfigs(ws, gl, conns, h) ==
  LoadGlobal(gl, 1, conns, h, LoadWorkspace(LoadWorkspaceConfigs(ws), 1, conns, h, <<>>))

\* the k smallest object ids outside used, in increasing order
RECURSIVE Fresh(_, _)
Fresh(used, k) ==
  IF k = 0 THEN <<>>
  ELSE LET o == CHOOSE x \in ObjIds \ used : \A y \in ObjIds \ used : x <= y
       IN <<o>> \o Fresh(used \cup {o}, k - 1)
\* the loaded objects placed in the heap next to the objects still referenced
Place(objs, kept, h) ==
  LET ids == Fresh(kept, Len(objs))
  IN [conns |-> [i \in DOMAIN objs |-> [name |-> objs[i].config.name, obj |-> ids[i]]],
      heap |-> [o \in kept \cup Range(ids) |->
                  IF o \in kept THEN h[o]
                  ELSE objs[CHOOSE i \in DOMAIN ids : ids[i] = o]]]

\* the stores the extension is started on: a workspace entry with a password
\* in the file and another in the vault next to a global entry without any
\* password, and two entries that pin the same drive letter with their
\* passwords in the vault
Stores ==
  { [ws |-> <<Cfg("A", "", "filepw")>>, gl |-> <<Cfg("B", "", "")>>,
     vault |-> [n \in Names |-> IF n = "A" THEN "pw" ELSE ""], external |-> {}],
    [ws |-> <<Cfg("A", "Z", "")>>, gl |-> <<Cfg("B", "Z", "")>>,
     vault |-> [n \in Names |-> "pw"], external |-> {}] }

\* the state the constructor leaves on the stores s, with so many folders open
StartIn(s, folders) ==
  LET placed == Place(LoadConnectionConfigs(s.ws, s.gl, <<>>, <<>>), {}, <<>>)
  IN /\ wsFile = s.ws
     /\ globalCfg = s.gl
     /\ vault = s.vault
     /\ external = s.external
     /\ workspaceFolders = folders
     /\ connections = placed.conns
     /\ heap = placed.heap
     /\ procs = [p \in 1 .. MaxSpawns |-> [drive |-> "", state |-> "none"]]
     /\ tasks = EmptyBag
     /\ health = Idle
     /\ calls = 0
     /\ updates = 0
     /\ last = Did("constructor", "", "ok", FALSE)
\* the constructor in a window that has a folder open
Start(s) == StartIn(s, 1)

Init == \E s \in Stores : Start(s)

\* ------------------------------------------------------------- environment
\* the mount of a starting rclone becomes visible, if the letter is still free
MountReady(p) ==
  /\ procs[p].state = "starting"
  /\ ~DriveExists(procs[p].drive)
  /\ procs' = [procs EXCEPT ![p].state = "mounted"]
  /\ last' = Did("rclone.ready", "", "ok", FALSE)
  /\ UNCHANGED <<connections, heap, wsFile, globalCfg, vault, external, workspaceFolders, tasks, health, calls, updates>>

\* an rclone process dies (server gone, mount refused, crash) and stays dead
ProcessExit(p) ==
  /\ Running(p)
  /\ procs' = [procs EXCEPT ![p] = [drive |-> "", state |-> "exited"]]
  /\ last' = Did("rclone.exit", "", "ok", FALSE)
  /\ UNCHANGED <<connections, heap, wsFile, globalCfg, vault, external, workspaceFolders, tasks, health, calls, updates>>

\* ----------------------------------------------------------------- connect
Unspawned(tsks) ==
  BagCardinality([t \in {u \in BagToSet(tsks) : u.kind = "connect" /\ u.pc # "waitForMount"}
                    |-> CopiesIn(t, tsks)])
\* a guard that lets every call through
ConnectNeverRejects(c) == FALSE
ConnectRejects(c) == c.status = Connected
ConnectBegin(c) == [c EXCEPT !.status = Connecting, !.error = ""]
\* a failure that is dropped: the entry goes back to Disconnected
ConnectFailDropped(c, msg) == [c EXCEPT !.status = Disconnected]
\* a failure that leaves the status as connect set it
ConnectFailKeepsStatus(c, msg) == [c EXCEPT !.error = msg]
ConnectFail(c, msg) == [c EXCEPT !.status = Error, !.error = msg]
ConnectDone(c, letter, pid) ==
  [c EXCEPT !.status = Connected, !.mountedDrive = letter, !.processId = pid,
            !.rcPort = RcPortOf(letter)]

\* connect(name) up to its first suspension
Connect(n) ==
  /\ calls < MaxCalls
  /\ calls' = calls + 1
  /\ updates' = updates
  /\ UNCHANGED <<connections, wsFile, globalCfg, vault, procs, external, workspaceFolders, health>>
  /\ IF ~Has(connections, n)
     THEN /\ last' = Did("connect", n, "throw", FALSE)
          /\ UNCHANGED <<heap, tasks>>
     ELSE IF ConnectRejects(Entry(n))
     THEN /\ last' = Did("connect", n, "already", FALSE)
          /\ UNCHANGED <<heap, tasks>>
     ELSE /\ BagCardinality(tasks) < MaxTasks
          /\ Cardinality(Spawned) + Unspawned(tasks) < MaxSpawns
          /\ heap' = [heap EXCEPT ![Ref(connections, n)] = ConnectBegin(@)]
          /\ tasks' = Add(tasks, [Task("connect", n, Ref(connections, n),
                                       IF GetPassword(n) # "" THEN "obscure" ELSE "prompt",
                                       "", 0) EXCEPT !.password = GetPassword(n)])
          /\ last' = Did("connect", n, "begin", TRUE)

\* the password prompt returns: a password, or nothing
ConnectPrompted(t) ==
  /\ t.kind = "connect" /\ t.pc = "prompt"
  /\ UNCHANGED <<connections, wsFile, globalCfg, procs, external, workspaceFolders, health, calls, updates>>
  /\ \E pw \in {"", "typed"} :
       IF pw = ""
       THEN /\ heap' = Collect([heap EXCEPT ![t.obj] = ConnectFail(@, "Password is required")],
                               connections, Remove(tasks, t), health)
            /\ tasks' = Remove(tasks, t)
            /\ vault' = vault
            /\ last' = Did("connect.prompt", t.name, "error", TRUE)
       ELSE /\ vault' = StorePasswordIn(vault, t.name, pw)
            /\ heap' = [heap EXCEPT ![t.obj].passwordSource = "secret"]
            /\ tasks' = Add(Remove(tasks, t), [t EXCEPT !.pc = "obscure", !.password = pw])
            /\ last' = Did("connect.prompt", t.name, "stored", FALSE)

\* the password is obscured, the drive letter chosen and rclone spawned
ConnectMount(t) ==
  /\ t.kind = "connect" /\ t.pc = "obscure"
  /\ UNCHANGED <<connections, wsFile, globalCfg, vault, external, workspaceFolders, health, calls, updates>>
  /\ \E obscured \in BOOLEAN :
       LET c == heap[t.obj]
           driveLetter == IF c.config.driveLetter # "" THEN c.config.driveLetter
                          ELSE FindAvailableDrive
           pid == Cardinality(Spawned) + 1
           msg == IF ~obscured THEN "Failed to prepare password for connection"
                  ELSE "No available drive letters"
       IN IF ~obscured \/ driveLetter = ""
          THEN /\ heap' = Collect([heap EXCEPT ![t.obj] = ConnectFail(@, msg)],
                                  connections, Remove(tasks, t), health)
               /\ tasks' = Remove(tasks, t)
               /\ procs' = procs
               /\ last' = Did("connect.mount", t.name, "error", TRUE)
          ELSE /\ procs' = [procs EXCEPT ![pid] = [drive |-> driveLetter, state |-> "starting"]]
               /\ tasks' = Add(Remove(tasks, t),
                               [t EXCEPT !.pc = "waitForMount", !.drive = driveLetter,
                                         !.pid = pid, !.password = ""])
               /\ heap' = heap
               /\ last' = Did("connect.mount", t.name, "spawned", FALSE)

\* waitForMount returns: true once the letter exists, false at the timeout
ConnectFinish(t) ==
  /\ t.kind = "connect" /\ t.pc = "waitForMount"
  /\ UNCHANGED <<connections, wsFile, globalCfg, vault, procs, external, workspaceFolders, health, calls, updates>>
  /\ tasks' = Remove(tasks, t)
  /\ IF DriveExists(t.drive)
     THEN /\ heap' = Collect([heap EXCEPT ![t.obj] = ConnectDone(@, t.drive, t.pid)],
                             connections, tasks', health)
          /\ last' = Did("connect.finish", t.name, "connected", TRUE)
     ELSE /\ heap' = Collect([heap EXCEPT ![t.obj] = ConnectFail(@, "Mount timed out")],
                             connections, tasks', health)
          /\ last' = Did("connect.finish", t.name, "error", TRUE)

\* -------------------------------------------------------------- disconnect
\* a guard that lets every call through
DisconnectNeverRejects(c) == FALSE
DisconnectRejects(c) == c.status # Connected
DisconnectBegin(c) == [c EXCEPT !.status = Disconnecting]
DisconnectDone(c) ==
  [c EXCEPT !.status = Disconnected, !.mountedDrive = "", !.processId = 0]

\* disconnect(name) up to its first suspension
Disconnect(n) ==
  /\ calls < MaxCalls
  /\ calls' = calls + 1
  /\ updates' = updates
  /\ UNCHANGED <<connections, wsFile, globalCfg, vault, procs, external, workspaceFolders, health>>
  /\ IF ~Has(connections, n)
     THEN /\ last' = Did("disconnect", n, "throw", FALSE)
          /\ UNCHANGED <<heap, tasks>>
     ELSE IF DisconnectRejects(Entry(n))
     THEN /\ last' = Did("disconnect", n, "not connected", FALSE)
          /\ UNCHANGED <<heap, tasks>>
     ELSE LET o == Ref(connections, n)
              c == Entry(n)
          IN /\ BagCardinality(tasks) < MaxTasks
             /\ last' = Did("disconnect", n, "begin", TRUE)
             /\ IF c.mountedDrive # ""
                THEN /\ heap' = [heap EXCEPT ![o] = DisconnectBegin(@)]
                     /\ tasks' = Add(tasks, Task("disconnect", n, o, "closeEditors", c.mountedDrive, 0))
                ELSE IF c.processId # 0
                THEN /\ heap' = [heap EXCEPT ![o] = DisconnectBegin(@)]
                     /\ tasks' = Add(tasks, Task("disconnect", n, o, "unmount", "", c.processId))
                ELSE /\ heap' = [heap EXCEPT ![o] = DisconnectDone(@)]
                     /\ tasks' = tasks

\* the task once its disconnect has returned: disconnect itself is over,
\* updateConnection goes on behind its await
AfterDisconnect(tsks, t) ==
  IF t.kind = "update"
  THEN Add(Remove(tsks, t), [t EXCEPT !.pc = "remove", !.drive = "", !.pid = 0])
  ELSE IF t.kind = "removeConnection"
  THEN Add(Remove(tsks, t), [t EXCEPT !.pc = "deletePassword", !.drive = "", !.pid = 0])
  ELSE Remove(tsks, t)

\* the editors on the drive are closed; taskkill is issued for the pid the
\* object holds now
DisconnectClosed(t) ==
  /\ t.pc = "closeEditors" /\ t.kind # "disconnectAll"
  /\ UNCHANGED <<connections, wsFile, globalCfg, vault, procs, external, workspaceFolders, health, calls, updates>>
  /\ IF heap[t.obj].processId # 0
     THEN /\ tasks' = Add(Remove(tasks, t), [t EXCEPT !.pc = "unmount", !.pid = heap[t.obj].processId])
          /\ heap' = heap
          /\ last' = Did("disconnect.closed", t.name, "unmount", FALSE)
     ELSE /\ tasks' = AfterDisconnect(tasks, t)
          /\ heap' = Collect([heap EXCEPT ![t.obj] = DisconnectDone(@)], connections, tasks', health)
          /\ last' = Did("disconnect.closed", t.name, "disconnected", TRUE)

\* unmount returns, whether taskkill ended the process or failed
Unmount(pid, killed) ==
  IF killed /\ Running(pid)
  THEN [procs EXCEPT ![pid] = [drive |-> "", state |-> "exited"]]
  ELSE procs
DisconnectFinish(t) ==
  /\ t.pc = "unmount" /\ t.kind # "disconnectAll"
  /\ UNCHANGED <<connections, wsFile, globalCfg, vault, external, workspaceFolders, health, calls, updates>>
  /\ \E killed \in BOOLEAN : procs' = Unmount(t.pid, killed)
  /\ tasks' = AfterDisconnect(tasks, t)
  /\ heap' = Collect([heap EXCEPT ![t.obj] = DisconnectDone(@)], connections, tasks', health)
  /\ last' = Did("disconnect.finish", t.name, "disconnected", TRUE)

\* -------------------------------------------------------- updateConnection
WithoutPassword(cfg) == [cfg EXCEPT !.password = ""]
\* a removal that removes nothing
FilterNothing(list, n) == list
FilterOut(list, n) == SelectSeq(list, LAMBDA c : c.name # n)
\* findIndex by the old name: replace there, or push
Put(list, oldName, cfg) ==
  LET at == {i \in DOMAIN list : list[i].name = oldName}
  IN IF at = {} THEN Append(list, cfg)
     ELSE [i \in DOMAIN list |->
             IF i = (CHOOSE j \in at : \A k \in at : j <= k) THEN cfg ELSE list[i]]
TargetScope(t, c) == IF t.scope # "" THEN t.scope ELSE c.scope
ScopeChanged(t, c) == t.scope # "" /\ t.scope # c.scope

\* updateConnection from phase pc on, up to its next suspension: the writes
\* to the workspace file are synchronous and throw in a window without a
\* folder, the writes to the settings and the reads of the vault are awaited.
\* The result names the phase to resume at.
RECURSIVE UpdateRun(_, _, _, _, _, _)
UpdateRun(t, c, pc, ws, gl, conns) ==
  CASE pc = "remove" ->
         IF ~ScopeChanged(t, c) THEN UpdateRun(t, c, "save", ws, gl, conns)
         ELSE IF c.scope = "workspace"
         THEN IF ~HasWorkspace THEN [pc |-> "throw", ws |-> ws, gl |-> gl, conns |-> conns]
              ELSE UpdateRun(t, c, "save", FilterOut(LoadWorkspaceConfigs(ws), t.name), gl, conns)
         ELSE [pc |-> "save", ws |-> ws, gl |-> FilterOut(gl, t.name), conns |-> conns]
    [] pc = "save" ->
         IF TargetScope(t, c) = "workspace"
         THEN IF ~HasWorkspace THEN [pc |-> "throw", ws |-> ws, gl |-> gl, conns |-> conns]
              ELSE UpdateRun(t, c, "rename",
                             Put(LoadWorkspaceConfigs(ws), t.name, WithoutPassword(t.cfg)), gl, conns)
         ELSE [pc |-> "rename", ws |-> ws, gl |-> Put(gl, t.name, WithoutPassword(t.cfg)),
               conns |-> conns]
    [] pc = "rename" ->
         IF t.name # t.cfg.name
         THEN [pc |-> "vault", ws |-> ws, gl |-> gl, conns |-> MapDelete(conns, t.name)]
         ELSE [pc |-> "set", ws |-> ws, gl |-> gl, conns |-> conns]
    [] OTHER -> [pc |-> "set", ws |-> ws, gl |-> gl, conns |-> conns]
\* a move that leaves the old name's password in the vault
MovePasswordKeepsOld(v, oldName, newName) ==
  IF v[oldName] # "" THEN [v EXCEPT ![newName] = v[oldName]] ELSE v
\* the password moves to the new name, if the old name has one
MovePassword(v, oldName, newName) ==
  IF v[oldName] # "" THEN [[v EXCEPT ![newName] = v[oldName]] EXCEPT ![oldName] = ""] ELSE v
Updated(t, c) ==
  NewConnection(WithoutPassword(t.cfg), TargetScope(t, c), c.passwordSource)

\* the effect of running updateConnection task t on from phase pc
UpdateFrom(t, pc, others, op) ==
  LET c == heap[t.obj]
      r == UpdateRun(t, c, pc, wsFile, globalCfg, connections)
  IN /\ wsFile' = r.ws
     /\ globalCfg' = r.gl
     /\ IF r.pc = "set"
        THEN LET o == CHOOSE x \in ObjIds \ (DOMAIN heap) : \A y \in ObjIds \ (DOMAIN heap) : x <= y
             IN /\ ObjIds \ (DOMAIN heap) # {}
                /\ vault' = IF pc = "vault" THEN MovePassword(vault, t.name, t.cfg.name) ELSE vault
                /\ connections' = MapSet(r.conns, t.cfg.name, o)
                /\ tasks' = others
                /\ heap' = Collect([x \in DOMAIN heap \cup {o} |->
                                      IF x = o THEN Updated(t, c) ELSE heap[x]],
                                   connections', tasks', health)
                /\ last' = Did(op, t.name, "updated", TRUE)
        ELSE /\ vault' = vault
             /\ connections' = r.conns
             /\ tasks' = IF r.pc = "throw" THEN others ELSE Add(others, [t EXCEPT !.pc = r.pc])
             /\ heap' = Collect(heap, connections', tasks', health)
             /\ last' = Did(op, t.name, r.pc, FALSE)

\* the configurations and scopes updateConnection is called with: the stored
\* configuration under the same or another name, in the same or another scope
UpdateConfigs(n) ==
  IF Has(connections, n) THEN {[Entry(n).config EXCEPT !.name = m] : m \in Names}
  ELSE {Cfg(n, "", "")}
UpdateScopes == {"", "workspace", "global"}

\* updateConnection(oldName, config, newScope) up to its first suspension
UpdateConnection(n, cfg, scope) ==
  /\ calls < MaxCalls
  /\ calls' = calls + 1
  /\ updates < MaxUpdates
  /\ updates' = updates + 1
  /\ UNCHANGED <<procs, external, workspaceFolders, health>>
  /\ IF ~Has(connections, n)
     THEN /\ last' = Did("update", n, "throw", FALSE)
          /\ UNCHANGED <<connections, heap, wsFile, globalCfg, vault, tasks>>
     ELSE LET o == Ref(connections, n)
              c == Entry(n)
              t == [Task("update", n, o, "remove", "", 0) EXCEPT !.cfg = cfg, !.scope = scope]
          IN /\ BagCardinality(tasks) < MaxTasks
             /\ IF c.status = Connected
                THEN /\ UNCHANGED <<connections, wsFile, globalCfg, vault>>
                     /\ last' = Did("update", n, "disconnecting", TRUE)
                     /\ IF c.mountedDrive # ""
                        THEN /\ heap' = [heap EXCEPT ![o] = DisconnectBegin(@)]
                             /\ tasks' = Add(tasks, [t EXCEPT !.pc = "closeEditors",
                                                              !.drive = c.mountedDrive])
                        ELSE IF c.processId # 0
                        THEN /\ heap' = [heap EXCEPT ![o] = DisconnectBegin(@)]
                             /\ tasks' = Add(tasks, [t EXCEPT !.pc = "unmount",
                                                              !.pid = c.processId])
                        ELSE /\ heap' = [heap EXCEPT ![o] = DisconnectDone(@)]
                             /\ tasks' = Add(tasks, t)
                ELSE UpdateFrom(t, "remove", tasks, "update")

\* updateConnection resumes behind one of its awaits
UpdateResume(t) ==
  /\ t.kind = "update" /\ t.pc \in {"remove", "save", "rename", "vault"}
  /\ UNCHANGED <<procs, external, workspaceFolders, health, calls, updates>>
  /\ UpdateFrom(t, t.pc, Remove(tasks, t), "update.resume")

\* ------------------------------------------------------------ health check
GetActiveConnections ==
  SelectSeq([i \in DOMAIN connections |-> connections[i].obj],
            LAMBDA o : heap[o].status = Connected)
\* a success that leaves the failures counted so far in place
ProbeAliveKeepsCount(c) == c
ProbeAlive(c) ==
  IF c.healthCheckFailCount > 0 THEN [c EXCEPT !.healthCheckFailCount = 0] ELSE c
Exceeded(count) == count >= HEALTH_CHECK_MAX_FAILURES
\* a forced disconnect that clears what disconnect() clears and no more
ConnectionLostKeepsPort(c) ==
  [c EXCEPT !.status = Disconnected, !.mountedDrive = "", !.processId = 0,
            !.error = "Connection lost", !.healthCheckFailCount = 0]
ConnectionLost(c) ==
  [c EXCEPT !.status = Disconnected, !.mountedDrive = "", !.processId = 0,
            !.rcPort = 0, !.error = "Connection lost", !.healthCheckFailCount = 0]
ProbeFailed(c) ==
  LET counted == [c EXCEPT !.healthCheckFailCount = @ + 1]
  IN IF Exceeded(counted.healthCheckFailCount) THEN ConnectionLost(counted) ELSE counted
\* the loop skips the entries that have no RC port
RECURSIVE SkipNoPort(_, _)
SkipNoPort(q, h) ==
  IF q = <<>> THEN q
  ELSE IF h[Head(q)].rcPort = 0 THEN SkipNoPort(Tail(q), h) ELSE q
\* the loop runs on to the next probe, or to its end and the notification
HealthRun(q, h, changes, op, n, result) ==
  LET rest == SkipNoPort(q, h)
  IN /\ health' = IF rest = <<>> THEN Idle
                  ELSE [active |-> TRUE, queue |-> rest, port |-> h[Head(rest)].rcPort,
                        hasChanges |-> changes]
     /\ heap' = Collect(h, connections, tasks, health')
     /\ last' = Did(op, n, result, rest = <<>> /\ changes)

\* the interval fires: checkConnectionsHealth up to its first probe
HealthCheck ==
  /\ ~health.active
  /\ UNCHANGED <<connections, wsFile, globalCfg, vault, procs, external, workspaceFolders, tasks, calls, updates>>
  /\ IF GetActiveConnections = <<>>
     THEN /\ last' = Did("health", "", "none active", FALSE)
          /\ UNCHANGED <<heap, health>>
     ELSE HealthRun(GetActiveConnections, heap, FALSE, "health", "", "checking")

\* isConnectionAlive returns for the entry at the head of the loop
HealthProbe ==
  /\ health.active
  /\ UNCHANGED <<connections, wsFile, globalCfg, vault, procs, external, workspaceFolders, tasks, calls, updates>>
  /\ \E isAlive \in (IF PortAnswers(health.port) THEN BOOLEAN ELSE {FALSE}) :
       LET o == Head(health.queue)
           c == IF isAlive THEN ProbeAlive(heap[o]) ELSE ProbeFailed(heap[o])
           lost == ~isAlive /\ Exceeded(heap[o].healthCheckFailCount + 1)
       IN HealthRun(Tail(health.queue), [heap EXCEPT ![o] = c],
                    health.hasChanges \/ lost, "health.probe", heap[o].config.name,
                    IF lost THEN "lost" ELSE IF isAlive THEN "alive" ELSE "failed")

\* ----------------------------------------------------------- disconnectAll
\* the loop over the names still to disconnect, up to its next suspension:
\* disconnect(name) throws for a name the Map no longer holds, returns at
\* once for an entry that is not Connected, and is awaited otherwise
RECURSIVE DisconnectAllRun(_, _, _)
DisconnectAllRun(q, h, fired) ==
  IF q = <<>> THEN [heap |-> h, pc |-> "done", queue |-> q, name |-> "", fired |-> fired]
  ELSE IF ~Has(connections, Head(q))
  THEN [heap |-> h, pc |-> "throw", queue |-> q, name |-> Head(q), fired |-> fired]
  ELSE LET o == Ref(connections, Head(q))
           c == h[o]
       IN IF DisconnectRejects(c) THEN DisconnectAllRun(Tail(q), h, fired)
          ELSE IF c.mountedDrive # ""
          THEN [heap |-> [h EXCEPT ![o] = DisconnectBegin(@)], pc |-> "closeEditors",
                queue |-> q, name |-> Head(q), fired |-> TRUE]
          ELSE IF c.processId # 0
          THEN [heap |-> [h EXCEPT ![o] = DisconnectBegin(@)], pc |-> "unmount",
                queue |-> q, name |-> Head(q), fired |-> TRUE]
          ELSE DisconnectAllRun(Tail(q), [h EXCEPT ![o] = DisconnectDone(@)], TRUE)
DisconnectAllFrom(q, h, others, op, fired) ==
  LET r == DisconnectAllRun(q, h, fired)
  IN /\ tasks' = IF r.pc \in {"done", "throw"} THEN others
                 ELSE LET o == Ref(connections, r.name)
                      IN Add(others,
                             [Task("disconnectAll", r.name, o, r.pc, h[o].mountedDrive,
                                   IF r.pc = "unmount" THEN h[o].processId ELSE 0)
                                EXCEPT !.queue = Tail(r.queue)])
     /\ heap' = Collect(r.heap, connections, tasks', health)
     /\ last' = Did(op, r.name, r.pc, r.fired)

\* the names of the Connected entries, in the order of the Map
ActiveNames ==
  [i \in DOMAIN GetActiveConnections |-> heap[GetActiveConnections[i]].config.name]
\* disconnectAll() up to its first suspension
DisconnectAll ==
  /\ calls < MaxCalls
  /\ calls' = calls + 1
  /\ updates' = updates
  /\ BagCardinality(tasks) < MaxTasks
  /\ UNCHANGED <<connections, wsFile, globalCfg, vault, procs, external, workspaceFolders, health>>
  /\ DisconnectAllFrom(ActiveNames, heap, tasks, "disconnectAll", FALSE)

\* an await of the disconnect in flight returns; when the disconnect is over
\* the loop goes on
DisconnectAllResume(t) ==
  /\ t.kind = "disconnectAll"
  /\ UNCHANGED <<connections, wsFile, globalCfg, vault, external, workspaceFolders, health, calls, updates>>
  /\ IF t.pc = "closeEditors" /\ heap[t.obj].processId # 0
     THEN /\ tasks' = Add(Remove(tasks, t),
                          [t EXCEPT !.pc = "unmount", !.pid = heap[t.obj].processId])
          /\ UNCHANGED <<heap, procs>>
          /\ last' = Did("disconnectAll.resume", t.name, "unmount", FALSE)
     ELSE /\ \E killed \in BOOLEAN :
               procs' = IF t.pc = "unmount" THEN Unmount(t.pid, killed) ELSE procs
          /\ DisconnectAllFrom(t.queue, [heap EXCEPT ![t.obj] = DisconnectDone(@)],
                               Remove(tasks, t), "disconnectAll.resume", TRUE)

\* -------------------------------------------------------- removeConnection
\* removeConnection(name) up to its first suspension
RemoveConnection(n) ==
  /\ calls < MaxCalls
  /\ calls' = calls + 1
  /\ updates' = updates
  /\ UNCHANGED <<connections, wsFile, globalCfg, vault, procs, external, workspaceFolders, health>>
  /\ IF ~Has(connections, n)
     THEN /\ last' = Did("removeConnection", n, "throw", FALSE)
          /\ UNCHANGED <<heap, tasks>>
     ELSE LET o == Ref(connections, n)
              c == Entry(n)
              t == Task("removeConnection", n, o, "deletePassword", "", 0)
          IN /\ BagCardinality(tasks) < MaxTasks
             /\ IF c.status # Connected
                THEN /\ heap' = heap
                     /\ tasks' = Add(tasks, t)
                     /\ last' = Did("removeConnection", n, "deletePassword", FALSE)
                ELSE /\ last' = Did("removeConnection", n, "disconnecting", TRUE)
                     /\ IF c.mountedDrive # ""
                        THEN /\ heap' = [heap EXCEPT ![o] = DisconnectBegin(@)]
                             /\ tasks' = Add(tasks, [t EXCEPT !.pc = "closeEditors",
                                                              !.drive = c.mountedDrive])
                        ELSE IF c.processId # 0
                        THEN /\ heap' = [heap EXCEPT ![o] = DisconnectBegin(@)]
                             /\ tasks' = Add(tasks, [t EXCEPT !.pc = "unmount",
                                                              !.pid = c.processId])
                        ELSE /\ heap' = [heap EXCEPT ![o] = DisconnectDone(@)]
                             /\ tasks' = Add(tasks, t)

\* removeConnection resumes: the vault's deletePassword has returned and the
\* entry is written out of its store, or that write has returned and the
\* name leaves the Map
RemoveResume(t) ==
  /\ t.kind = "removeConnection" /\ t.pc \in {"deletePassword", "delete"}
  /\ UNCHANGED <<procs, external, workspaceFolders, health, calls, updates>>
  /\ IF t.pc = "deletePassword"
     THEN /\ vault' = DeletePasswordIn(vault, t.name)
          /\ wsFile' = IF heap[t.obj].scope = "workspace"
                       THEN FilterOut(LoadWorkspaceConfigs(wsFile), t.name)
                       ELSE wsFile
          /\ globalCfg' = IF heap[t.obj].scope = "workspace" THEN globalCfg
                          ELSE FilterOut(globalCfg, t.name)
          /\ tasks' = Add(Remove(tasks, t), [t EXCEPT !.pc = "delete"])
          /\ UNCHANGED <<connections, heap>>
          /\ last' = Did("removeConnection.resume", t.name, "delete", FALSE)
     ELSE /\ connections' = MapDelete(connections, t.name)
          /\ tasks' = Remove(tasks, t)
          /\ heap' = Collect(heap, connections', tasks', health)
          /\ UNCHANGED <<vault, wsFile, globalCfg>>
          /\ last' = Did("removeConnection.resume", t.name, "removed", TRUE)

\* --------------------------------------------------------- password source
\* updatePasswordSource on entry c, with the workspace file ws and the vault v
UpdatePasswordSource(c, ws, v) ==
  [c EXCEPT !.passwordSource =
     IF c.scope = "workspace" /\ PasswordIn(ws, c.config.name) # "" THEN "workspace"
     ELSE IF v[c.config.name] # "" THEN "secret"
     ELSE "none"]
\* initializePasswordSources, which the activation runs before it registers
\* any command
InitializePasswordSources(h, ws, v) ==
  [o \in DOMAIN h |-> UpdatePasswordSource(h[o], ws, v)]

\* storePassword(connectionName, password)
StorePassword(n, pw) ==
  /\ calls < MaxCalls
  /\ calls' = calls + 1
  /\ updates' = updates
  /\ vault' = StorePasswordIn(vault, n, pw)
  /\ heap' = IF Has(connections, n)
             THEN [heap EXCEPT ![Ref(connections, n)].passwordSource = "secret"]
             ELSE heap
  /\ last' = Did("storePassword", n, "ok", FALSE)
  /\ UNCHANGED <<connections, wsFile, globalCfg, procs, external, workspaceFolders, tasks, health>>

\* deleteSecretPassword(connectionName)
DeleteSecretPassword(n) ==
  /\ calls < MaxCalls
  /\ calls' = calls + 1
  /\ updates' = updates
  /\ vault' = DeletePasswordIn(vault, n)
  /\ heap' = IF Has(connections, n)
             THEN [heap EXCEPT ![Ref(connections, n)].passwordSource =
                                 IF PasswordsInFile(n) # "" THEN "workspace" ELSE "none"]
             ELSE heap
  /\ last' = Did("deleteSecretPassword", n, "ok", TRUE)
  /\ UNCHANGED <<connections, wsFile, globalCfg, procs, external, workspaceFolders, tasks, health>>

\* ------------------------------------------------------------ addConnection
\* addConnection(config, scope) up to the await of its write, which throws
\* for the workspace file in a window without a folder
\* a default that is the workspace file whatever the window
AddScopeWorkspace(scope) == IF scope # "" THEN scope ELSE "workspace"
AddScope(scope) ==
  IF scope # "" THEN scope ELSE IF HasWorkspace THEN "workspace" ELSE "global"
AddConnection(cfg, scope) ==
  /\ calls < MaxCalls
  /\ calls' = calls + 1
  /\ updates' = updates
  /\ UNCHANGED <<connections, heap, vault, procs, external, workspaceFolders, health>>
  /\ IF Has(connections, cfg.name)
     THEN /\ last' = Did("addConnection", cfg.name, "throw", FALSE)
          /\ UNCHANGED <<wsFile, globalCfg, tasks>>
     ELSE IF AddScope(scope) = "workspace" /\ ~HasWorkspace
     THEN /\ last' = Did("addConnection", cfg.name, "throw", FALSE)
          /\ UNCHANGED <<wsFile, globalCfg, tasks>>
     ELSE LET targetScope == AddScope(scope)
              t == [Task("addConnection", cfg.name, 0, "set", "", 0)
                      EXCEPT !.cfg = WithoutPassword(cfg), !.scope = targetScope]
          IN /\ BagCardinality(tasks) < MaxTasks
             /\ wsFile' = IF targetScope = "workspace"
                          THEN Append(LoadWorkspaceConfigs(wsFile), WithoutPassword(cfg))
                          ELSE wsFile
             /\ globalCfg' = IF targetScope = "workspace" THEN globalCfg
                             ELSE Append(globalCfg, WithoutPassword(cfg))
             /\ tasks' = Add(tasks, t)
             /\ last' = Did("addConnection", cfg.name, "save", FALSE)

\* the write has returned: the new entry goes into the Map
AddResume(t) ==
  /\ t.kind = "addConnection"
  /\ ObjIds \ (DOMAIN heap) # {}
  /\ LET o == CHOOSE x \in ObjIds \ (DOMAIN heap) : \A y \in ObjIds \ (DOMAIN heap) : x <= y
     IN /\ connections' = MapSet(connections, t.name, o)
        /\ tasks' = Remove(tasks, t)
        /\ heap' = Collect([x \in DOMAIN heap \cup {o} |->
                              IF x = o THEN NewConnection(t.cfg, t.scope, "none") ELSE heap[x]],
                           connections', tasks', health)
  /\ last' = Did("addConnection.resume", t.name, "added", TRUE)
  /\ UNCHANGED <<wsFile, globalCfg, vault, procs, external, workspaceFolders, health, calls, updates>>

\* ----------------------------------------------------------- testConnection
\* a prompt whose password is kept under the name
TestPromptedStored(v, n, pw) == [v EXCEPT ![n] = pw]
\* the vault once the prompt of testConnection has returned a password
TestPrompted(v, n, pw) == v
\* testConnection(config, password) up to its first suspension: with no
\* password given it looks one up, and prompts if there is none
TestConnection(cfg, pw) ==
  /\ calls < MaxCalls
  /\ calls' = calls + 1
  /\ updates' = updates
  /\ BagCardinality(tasks) < MaxTasks
  /\ LET password == IF pw # "" THEN pw ELSE GetPassword(cfg.name)
     IN tasks' = Add(tasks, [Task("testConnection", cfg.name, 0,
                                  IF password # "" THEN "test" ELSE "prompt", "", 0)
                               EXCEPT !.cfg = cfg, !.password = password])
  /\ last' = Did("testConnection", cfg.name, "begin", FALSE)
  /\ UNCHANGED <<connections, heap, wsFile, globalCfg, vault, procs, external, workspaceFolders, health>>

\* testConnection resumes: the prompt returns a password or nothing, or
\* rclone lsd returns
TestResume(t) ==
  /\ t.kind = "testConnection"
  /\ UNCHANGED <<connections, heap, wsFile, globalCfg, procs, external, workspaceFolders, health, calls, updates>>
  /\ IF t.pc = "prompt"
     THEN \E pw \in {"", "typed"} :
            IF pw = ""
            THEN /\ tasks' = Remove(tasks, t)
                 /\ vault' = vault
                 /\ last' = Did("testConnection.prompt", t.name, "Password is required", FALSE)
            ELSE /\ tasks' = Add(Remove(tasks, t), [t EXCEPT !.pc = "test", !.password = pw])
                 /\ vault' = TestPrompted(vault, t.name, pw)
                 /\ last' = Did("testConnection.prompt", t.name, "typed", FALSE)
     ELSE /\ tasks' = Remove(tasks, t)
          /\ vault' = vault
          /\ \E success \in BOOLEAN :
               last' = Did("testConnection.test", t.name,
                           IF success THEN "Connection successful" ELSE "failed", FALSE)

\* ----------------------------------------------------------------- refresh
Refresh ==
  LET kept == TaskObjs(tasks) \cup Range(health.queue)
      placed == Place(LoadConnectionConfigs(wsFile, globalCfg, connections, heap), kept, heap)
  IN /\ calls < MaxCalls
     /\ calls' = calls + 1
     /\ updates' = updates
     /\ connections' = placed.conns
     /\ heap' = placed.heap
     /\ last' = Did("refresh", "", "ok", TRUE)
     /\ UNCHANGED <<wsFile, globalCfg, vault, procs, external, workspaceFolders, tasks, health>>

\* ------------------------------------------------------------------- system
Next ==
  \/ \E n \in Names : Connect(n)
  \/ \E t \in BagToSet(tasks) : ConnectPrompted(t)
  \/ \E t \in BagToSet(tasks) : ConnectMount(t)
  \/ \E t \in BagToSet(tasks) : ConnectFinish(t)
  \/ \E n \in Names : Disconnect(n)
  \/ \E t \in BagToSet(tasks) : DisconnectClosed(t)
  \/ \E t \in BagToSet(tasks) : DisconnectFinish(t)
  \/ \E n \in Names : \E cfg \in UpdateConfigs(n), scope \in UpdateScopes : UpdateConnection(n, cfg, scope)
  \/ \E t \in BagToSet(tasks) : UpdateResume(t)
  \/ HealthCheck
  \/ HealthProbe
  \/ Refresh
  \/ \E p \in Pids : MountReady(p)
  \/ \E p \in Pids : ProcessExit(p)

Spec == Init /\ [][Next]_vars

\* the loader on its own: every workspace file and every settings list of at
\* most MaxLen entries, loaded by the constructor and again by refresh()
SeqsUpTo(S, k) == UNION {[1 .. m -> S] : m \in 0 .. k}
WsConfigs == {Cfg(n, l, pw) : n \in Names, l \in {"", "Z"}, pw \in {"", "filepw"}}
GlConfigs == {Cfg(n, l, "") : n \in Names, l \in {"", "Y"}}
LoadStores ==
  {[ws |-> w, gl |-> g, vault |-> [n \in Names |-> ""], external |-> {}] :
     w \in SeqsUpTo(WsConfigs, MaxLen), g \in SeqsUpTo(GlConfigs, MaxLen)}
LoadInit == \E s \in LoadStores : Start(s)
LoadNext == Refresh
LoadSpec == LoadInit /\ [][LoadNext]_vars

\* three global entries with their passwords in the vault: as the constructor
\* leaves them, and as three connects one after the other leave them
Names3 == Names \cup {"C"}
Store3 ==
  [ws |-> <<>>, gl |-> <<Cfg("A", "", ""), Cfg("B", "", ""), Cfg("C", "", "")>>,
   vault |-> [n \in Names3 |-> "pw"], external |-> {}]
ThreeConnected ==
  LET placed == Place(LoadConnectionConfigs(Store3.ws, Store3.gl, <<>>, <<>>), {}, <<>>)
  IN /\ wsFile = Store3.ws
     /\ globalCfg = Store3.gl
     /\ vault = Store3.vault
     /\ external = Store3.external
     /\ workspaceFolders = 1
     /\ connections = placed.conns
     /\ heap = [o \in DOMAIN placed.heap |->
                  ConnectDone(ConnectBegin(placed.heap[o]), DRIVE_LETTERS[o], o)]
     /\ procs = [p \in DOMAIN placed.heap |-> [drive |-> DRIVE_LETTERS[p], state |-> "mounted"]]
     /\ tasks = EmptyBag
     /\ health = Idle
     /\ calls = 0
     /\ updates = 0
     /\ last = Did("connect.finish", "C", "connected", TRUE)
AllInit == Start(Store3) \/ ThreeConnected
AllNext ==
  \/ \E n \in Names3 : Connect(n)
  \/ \E t \in BagToSet(tasks) : ConnectMount(t)
  \/ \E t \in BagToSet(tasks) : ConnectFinish(t)
  \/ \E p \in Pids : MountReady(p)
  \/ DisconnectAll
  \/ \E t \in BagToSet(tasks) : DisconnectAllResume(t)
  \/ \E n \in Names3 : RemoveConnection(n)
  \/ \E t \in BagToSet(tasks) : RemoveResume(t)
  \/ \E t \in BagToSet(tasks) : DisconnectClosed(t)
  \/ \E t \in BagToSet(tasks) : DisconnectFinish(t)
AllSpec == AllInit /\ [][AllNext]_vars

\* the operations that read and write passwords, from the state the
\* activation leaves: a workspace entry with its password in the file, and a
\* workspace entry without one next to a global entry with one in the vault
PasswordStores ==
  { [ws |-> <<Cfg("A", "", "filepw")>>, gl |-> <<>>,
     vault |-> [n \in Names |-> ""], external |-> {}],
    [ws |-> <<Cfg("A", "", "")>>, gl |-> <<Cfg("B", "", "")>>,
     vault |-> [n \in Names |-> IF n = "B" THEN "pw" ELSE ""], external |-> {}] }
PasswordInit ==
  \E s \in PasswordStores :
    LET placed == Place(LoadConnectionConfigs(s.ws, s.gl, <<>>, <<>>), {}, <<>>)
    IN /\ wsFile = s.ws
       /\ globalCfg = s.gl
       /\ vault = s.vault
       /\ external = s.external
       /\ workspaceFolders = 1
       /\ connections = placed.conns
       /\ heap = InitializePasswordSources(placed.heap, s.ws, s.vault)
       /\ procs = [p \in 1 .. MaxSpawns |-> [drive |-> "", state |-> "none"]]
       /\ tasks = EmptyBag
       /\ health = Idle
       /\ calls = 0
       /\ updates = 0
       /\ last = Did("initializePasswordSources", "", "ok", TRUE)
AddConfigs == {Cfg(n, "", pw) : n \in Names, pw \in {"", "addpw"}}
PasswordNext ==
  \/ \E cfg \in AddConfigs, scope \in UpdateScopes : AddConnection(cfg, scope)
  \/ \E t \in BagToSet(tasks) : AddResume(t)
  \/ \E n \in Names : StorePassword(n, "pw")
  \/ \E n \in Names : DeleteSecretPassword(n)
  \/ \E n \in Names : \E cfg \in UpdateConfigs(n), scope \in UpdateScopes : UpdateConnection(n, cfg, scope)
  \/ \E t \in BagToSet(tasks) : UpdateResume(t)
  \/ \E n \in Names : Connect(n)
  \/ \E t \in BagToSet(tasks) : ConnectPrompted(t)
  \/ \E t \in BagToSet(tasks) : ConnectMount(t)
  \/ \E t \in BagToSet(tasks) : ConnectFinish(t)
  \/ \E p \in Pids : MountReady(p)
  \/ \E t \in BagToSet(tasks) : DisconnectClosed(t)
  \/ \E t \in BagToSet(tasks) : DisconnectFinish(t)
PasswordSpec == PasswordInit /\ [][PasswordNext]_vars

\* connects on hosts that hold drive letters of their own: none, the first of
\* the pool, the first two, all of them, and all but one; entry A pins a
\* letter or leaves it open, and both passwords are in the vault
DriveStores ==
  {[ws |-> <<>>, gl |-> <<Cfg("A", l, ""), Cfg("B", "", "")>>,
    vault |-> [n \in Names |-> "pw"], external |-> x] :
     l \in {"", "Z", "Y"},
     x \in {{}, {"Z"}, {"Z", "Y"}, Range(DRIVE_LETTERS), Range(DRIVE_LETTERS) \ {"D"}}}
DriveInit == \E s \in DriveStores : Start(s)
DriveNext ==
  \/ \E n \in Names : Connect(n)
  \/ \E t \in BagToSet(tasks) : ConnectMount(t)
  \/ \E t \in BagToSet(tasks) : ConnectFinish(t)
  \/ \E n \in Names : Disconnect(n)
  \/ \E t \in BagToSet(tasks) : DisconnectClosed(t)
  \/ \E t \in BagToSet(tasks) : DisconnectFinish(t)
  \/ \E p \in Pids : MountReady(p)
  \/ \E p \in Pids : ProcessExit(p)
DriveSpec == DriveInit /\ [][DriveNext]_vars

\* addConnection, updateConnection and removeConnection on stores that hold
\* every name once: in the workspace file, in the settings, or in neither,
\* in a window with a folder open or, the workspace file empty, with none
StoreStores ==
  {[ws |-> w, gl |-> g, vault |-> [n \in Names |-> ""], external |-> {}] :
     w \in {<<>>, <<Cfg("A", "Z", "")>>, <<Cfg("A", "Z", ""), Cfg("B", "", "")>>},
     g \in {<<>>, <<Cfg("B", "", "")>>}} \
  {[ws |-> <<Cfg("A", "Z", ""), Cfg("B", "", "")>>, gl |-> <<Cfg("B", "", "")>>,
    vault |-> [n \in Names |-> ""], external |-> {}]}
StoreInit ==
  \E s \in StoreStores, folders \in {0, 1} : (folders = 0 => s.ws = <<>>) /\ StartIn(s, folders)
StoreNext ==
  \/ \E cfg \in AddConfigs, scope \in UpdateScopes : AddConnection(cfg, scope)
  \/ \E t \in BagToSet(tasks) : AddResume(t)
  \/ \E n \in Names : \E cfg \in UpdateConfigs(n), scope \in UpdateScopes : UpdateConnection(n, cfg, scope)
  \/ \E t \in BagToSet(tasks) : UpdateResume(t)
  \/ \E n \in Names : RemoveConnection(n)
  \/ \E t \in BagToSet(tasks) : RemoveResume(t)
StoreSpec == StoreInit /\ [][StoreNext]_vars

\* the round trip of a scope change: every entry starts in the workspace
\* file, stored without a password, with the config that goes with its name;
\* the settings may hold configs of the same names, which the file shadows.
\* updateConnection is called with the entry's own config, first to move it
\* to the settings, then to move it back, and may be called twice.
Original(n) == Cfg(n, IF n = "A" THEN "Z" ELSE "", "")
Shadowed(n) == Cfg(n, "Y", "")
NamesOf(list) == {list[i].name : i \in DOMAIN list}
RoundTripStores ==
  {[ws |-> w, gl |-> g, vault |-> [n \in Names |-> ""], external |-> {}] :
     w \in {<<Original("A")>>, <<Original("B")>>, <<Original("A"), Original("B")>>,
            <<Original("B"), Original("A")>>},
     g \in SeqsUpTo({Shadowed(n) : n \in Names}, MaxLen)}
RoundTripInit ==
  \E s \in {r \in RoundTripStores : NamesOf(r.gl) \subseteq NamesOf(r.ws)} :
    LET placed == Place(LoadConnectionConfigs(s.ws, s.gl, <<>>, <<>>), {}, <<>>)
    IN /\ wsFile = s.ws
       /\ globalCfg = s.gl
       /\ vault = s.vault
       /\ external = s.external
       /\ workspaceFolders = 1
       /\ connections = placed.conns
       /\ heap = placed.heap
       /\ procs = [p \in 1 .. MaxSpawns |-> [drive |-> "", state |-> "none"]]
       /\ tasks = EmptyBag
       /\ health = Idle
       /\ calls = 0
       /\ updates = MaxUpdates - 2
       /\ last = Did("constructor", "", "ok", FALSE)
Updating(n) == \E t \in BagToSet(tasks) : t.kind = "update" /\ t.name = n
RoundTripOut(n) ==
  /\ Has(connections, n) /\ Entry(n).scope = "workspace" /\ ~Updating(n)
  /\ UpdateConnection(n, Entry(n).config, "global")
RoundTripBack(n) ==
  /\ Has(connections, n) /\ Entry(n).scope = "global" /\ ~Updating(n)
  /\ UpdateConnection(n, Entry(n).config, "workspace")
RoundTripNext ==
  \/ \E n \in Names : RoundTripOut(n)
  \/ \E n \in Names : RoundTripBack(n)
  \/ \E t \in BagToSet(tasks) : UpdateResume(t)
RoundTripSpec == RoundTripInit /\ [][RoundTripNext]_vars

\* the loader on workspace files that parse and that do not, which the user
\* may edit at any time, next to the connects that give refresh() Connected
\* entries to keep
WorkspaceFiles ==
  {<<>>, <<Cfg("A", "", "filepw")>>, <<Unparsable>>, <<Unparsable, Cfg("A", "", "filepw")>>}
FileStores ==
  {[ws |-> w, gl |-> g, vault |-> [n \in Names |-> "pw"], external |-> {}] :
     w \in WorkspaceFiles,
     g \in {<<>>, <<Cfg("B", "", "")>>, <<Cfg("A", "Y", ""), Cfg("B", "", "")>>}}
FileInit == \E s \in FileStores : Start(s)
\* the user saves the workspace file with another content
EditWorkspaceFile ==
  /\ \E w \in WorkspaceFiles \ {wsFile} : wsFile' = w
  /\ last' = Did("edit", "", "ok", FALSE)
  /\ UNCHANGED <<connections, heap, globalCfg, vault, procs, external, workspaceFolders, tasks, health, calls, updates>>
FileNext ==
  \/ EditWorkspaceFile
  \/ Refresh
  \/ \E n \in Names : Connect(n)
  \/ \E t \in BagToSet(tasks) : ConnectMount(t)
  \/ \E t \in BagToSet(tasks) : ConnectFinish(t)
  \/ \E p \in Pids : MountReady(p)
FileSpec == FileInit /\ [][FileNext]_vars

\* testConnection among the operations that read and write passwords
TestConfigs == {Cfg(n, "", "") : n \in Names}
TestNext ==
  \/ \E cfg \in TestConfigs, pw \in {"", "formpw"} : TestConnection(cfg, pw)
  \/ \E t \in BagToSet(tasks) : TestResume(t)
  \/ \E n \in Names : StorePassword(n, "pw")
  \/ \E n \in Names : DeleteSecretPassword(n)
  \/ \E n \in Names : Connect(n)
  \/ \E t \in BagToSet(tasks) : ConnectPrompted(t)
TestSpec == PasswordInit /\ [][TestNext]_vars

\* connect, disconnect and refresh alone; every suspended connect and
\* disconnect resumes: the prompt, the spawn, the readiness poll, the closing
\* of the editors and the kill each return
TerminationNext ==
  \/ \E n \in Names : Connect(n)
  \/ \E t \in BagToSet(tasks) : ConnectPrompted(t)
  \/ \E t \in BagToSet(tasks) : ConnectMount(t)
  \/ \E t \in BagToSet(tasks) : ConnectFinish(t)
  \/ \E n \in Names : Disconnect(n)
  \/ \E t \in BagToSet(tasks) : DisconnectClosed(t)
  \/ \E t \in BagToSet(tasks) : DisconnectFinish(t)
  \/ Refresh
  \/ \E p \in Pids : MountReady(p)
TerminationSpec ==
  /\ Init
  /\ [][TerminationNext]_vars
  /\ WF_vars(\E t \in BagToSet(tasks) : ConnectPrompted(t))
  /\ WF_vars(\E t \in BagToSet(tasks) : ConnectMount(t))
  /\ WF_vars(\E t \in BagToSet(tasks) : ConnectFinish(t))
  /\ WF_vars(\E t \in BagToSet(tasks) : DisconnectClosed(t))
  /\ WF_vars(\E t \in BagToSet(tasks) : DisconnectFinish(t))

\* addConnection, updateConnection and removeConnection next to connected
\* entries, over workspace files that parse and files that do not
FrameNext ==
  \/ StoreNext
  \/ \E n \in Names : Connect(n)
  \/ \E t \in BagToSet(tasks) : ConnectMount(t)
  \/ \E t \in BagToSet(tasks) : ConnectFinish(t)
  \/ \E p \in Pids : MountReady(p)
  \/ \E t \in BagToSet(tasks) : DisconnectClosed(t)
  \/ \E t \in BagToSet(tasks) : DisconnectFinish(t)
FrameSpec == FileInit /\ [][FrameNext]_vars

TypeOK ==
  /\ DOMAIN heap \subseteq ObjIds
  /\ MapObjs(connections) \subseteq DOMAIN heap
  /\ TaskObjs(tasks) \subseteq DOMAIN heap
  /\ Range(health.queue) \subseteq DOMAIN heap
  /\ BagCardinality(tasks) <= MaxTasks

\* ------------------------------------------------------------------ claims
StatusOf(n) == Entry(n).status
IsConnected(n) == Has(connections, n) /\ StatusOf(n) = Connected
ConnectTasks(n) ==
  BagCardinality([t \in {u \in BagToSet(tasks) : u.kind = "connect" /\ u.name = n}
                    |-> CopiesIn(t, tasks)])

\* C1: no two Connected connections hold the same mount point (mountedDrive).
C1_DistinctMountPoints ==
  \A n, m \in Names :
    (n # m /\ IsConnected(n) /\ IsConnected(m)) =>
      Entry(n).mountedDrive # Entry(m).mountedDrive

\* the step is the return of a health probe for the object at the head of the loop
ProbeStep == health.active /\ last'.op = "health.probe" /\ health' # health
Probed == Head(health.queue)
\* C2: a failed probe that brings the consecutive-failure counter to less than
\* HEALTH_CHECK_MAX_FAILURES leaves the entry's status alone, the failure that
\* brings it to HEALTH_CHECK_MAX_FAILURES sets the status to Disconnected, a
\* successful probe sets the counter to 0 at any count, and nothing but a probe
\* changes the counter, which starts at 0.
C2_ConsecutiveFailures ==
  [][ /\ (ProbeStep /\ Probed \in DOMAIN heap') =>
          LET before == heap[Probed]
              after == heap'[Probed]
          IN /\ last'.result = "alive" => after.healthCheckFailCount = 0
             /\ last'.result = "alive" => after.status = before.status
             /\ (last'.result # "alive" /\
                 before.healthCheckFailCount + 1 < HEALTH_CHECK_MAX_FAILURES) =>
                  /\ after.status = before.status
                  /\ after.healthCheckFailCount = before.healthCheckFailCount + 1
             /\ (last'.result # "alive" /\
                 before.healthCheckFailCount + 1 = HEALTH_CHECK_MAX_FAILURES) =>
                  after.status = Disconnected
      /\ \A o \in DOMAIN heap' :
           /\ (o \in DOMAIN heap /\ ~(ProbeStep /\ o = Probed) /\ last'.op # "refresh") =>
                heap'[o].healthCheckFailCount = heap[o].healthCheckFailCount
           /\ (o \notin DOMAIN heap \/ (last'.op = "refresh" /\ o \in MapObjs(connections'))) =>
                heap'[o].healthCheckFailCount = 0
           /\ heap'[o].healthCheckFailCount < HEALTH_CHECK_MAX_FAILURES
    ]_vars
\* a Connected entry that has failed HEALTH_CHECK_MAX_FAILURES - 1 probes in a row
C2_Witness ==
  \E n \in Names :
    /\ IsConnected(n)
    /\ Entry(n).healthCheckFailCount = HEALTH_CHECK_MAX_FAILURES - 1
    /\ last.op = "health.probe" /\ last.name = n /\ last.result = "failed"

\* C3: the probe failure that reaches the threshold leaves the entry
\* Disconnected with error "Connection lost" and no mount point, process id or
\* RC port, and the tick that did it ends with a change notification.
C3_ConnectionLost ==
  [][ /\ (ProbeStep /\ last'.result = "lost") =>
          /\ Probed \in DOMAIN heap' =>
               /\ heap'[Probed].status = Disconnected
               /\ heap'[Probed].error = "Connection lost"
               /\ heap'[Probed].mountedDrive = ""
               /\ heap'[Probed].processId = 0
               /\ heap'[Probed].rcPort = 0
          /\ IF health'.active THEN health'.hasChanges ELSE last'.fired
      /\ (health.active /\ health.hasChanges /\ health' # health) =>
          IF health'.active THEN health'.hasChanges ELSE last'.fired
    ]_vars
\* the tick that lost the connection has ended and notified
C3_Witness ==
  \E n \in Names :
    /\ Has(connections, n)
    /\ Entry(n).status = Disconnected /\ Entry(n).error = "Connection lost"
    /\ Entry(n).mountedDrive = "" /\ Entry(n).processId = 0 /\ Entry(n).rcPort = 0
    /\ last = Did("health.probe", n, "lost", TRUE)

\* C4: connect on an entry that is Connected changes no entry, spawns no
\* process, leaves the vault and both stores alone and fires no notification.
C4_ConnectWhenConnected ==
  [][ \A n \in Names :
        (IsConnected(n) /\ calls' = calls + 1 /\ last'.op = "connect" /\ last'.name = n) =>
          /\ UNCHANGED <<connections, heap, procs, vault, wsFile, globalCfg, tasks, health>>
          /\ ~last'.fired
    ]_vars
\* connect has just returned on an entry that was Connected already
C4_Witness ==
  \E n \in Names : IsConnected(n) /\ last = Did("connect", n, "already", FALSE)

\* C5: at most one connect is in flight per connection name.
C5_OneConnectInFlight == \A n \in Names : ConnectTasks(n) <= 1

\* the status the map holds under n changes in this step
Becomes(n, status) ==
  /\ Has(connections, n) /\ Has(connections', n)
  /\ StatusOf(n) # status
  /\ heap'[Ref(connections', n)].status = status
\* C6: the status the map holds under a name becomes Connected only from
\* Connecting, and goes from Connected to Disconnected in one step only when
\* the health check does it (a disconnect passes through Disconnecting).
C6_NoSkippedTransition ==
  [][ \A n \in Names :
        /\ Becomes(n, Connected) => StatusOf(n) = Connecting
        /\ (Becomes(n, Disconnected) /\ StatusOf(n) = Connected) => last'.op = "health.probe"
    ]_vars

\* C7: the status the map holds under a name becomes Error only from Connecting
\* or Disconnecting, and connect on an entry in Error makes it Connecting with
\* the error message cleared.
C7_ErrorTransitions ==
  [][ \A n \in Names :
        /\ Becomes(n, Error) => StatusOf(n) \in {Connecting, Disconnecting}
        /\ (Has(connections, n) /\ StatusOf(n) = Error /\ calls' = calls + 1 /\
            last'.op = "connect" /\ last'.name = n) =>
             /\ heap'[Ref(connections', n)].status = Connecting
             /\ heap'[Ref(connections', n)].error = ""
    ]_vars

\* C8: an entry that is Disconnected, Connecting or in Error has no mount point
\* and no process id.
C8_MountFieldsOnlyWhenConnected ==
  \A n \in Names :
    (Has(connections, n) /\ StatusOf(n) \in {Disconnected, Connecting, Error}) =>
      (Entry(n).mountedDrive = "" /\ Entry(n).processId = 0)

\* C9: an entry that is Connected has its mount point, process id and RC port set.
C9_ConnectedHasMountFields ==
  \A n \in Names :
    IsConnected(n) =>
      (Entry(n).mountedDrive # "" /\ Entry(n).processId # 0 /\ Entry(n).rcPort # 0)

InWs(n) == \E i \in DOMAIN wsFile : wsFile[i].name = n
InGl(n) == \E i \in DOMAIN globalCfg : globalCfg[i].name = n
LastWs(n) == wsFile[CHOOSE i \in DOMAIN wsFile :
                      wsFile[i].name = n /\ \A j \in DOMAIN wsFile : wsFile[j].name = n => j <= i]
FirstGl(n) == globalCfg[CHOOSE i \in DOMAIN globalCfg :
                          globalCfg[i].name = n /\ \A j \in DOMAIN globalCfg : globalCfg[j].name = n => i <= j]
KeysNamed(n) == {i \in DOMAIN connections : connections[i].name = n}
\* C11: the loaded table holds one entry per name of either store and none for
\* any other name; a name the workspace file holds is loaded with scope
\* workspace and the file's config (the file's last one of that name), whatever
\* the settings hold under it; a name only the settings hold is loaded with
\* scope global and the settings' config.
C11_ProjectShadowsGlobal ==
  \A n \in Names :
    /\ Cardinality(KeysNamed(n)) = IF InWs(n) \/ InGl(n) THEN 1 ELSE 0
    /\ InWs(n) => (Entry(n).scope = "workspace" /\ Entry(n).config = LastWs(n))
    /\ (InGl(n) /\ ~InWs(n)) => (Entry(n).scope = "global" /\ Entry(n).config = FirstGl(n))
\* refresh() has loaded a name both stores hold, with different configs
C11_Witness ==
  \E n \in Names :
    /\ InWs(n) /\ InGl(n) /\ FirstGl(n) # LastWs(n)
    /\ Entry(n).scope = "workspace"
    /\ last.op = "refresh"

\* C12: disconnect on an entry that is Disconnected changes no entry, ends no
\* process, starts nothing and fires no notification.
C12_DisconnectWhenDisconnected ==
  [][ \A n \in Names :
        (Has(connections, n) /\ StatusOf(n) = Disconnected /\ calls' = calls + 1 /\
         last'.op = "disconnect" /\ last'.name = n) =>
          /\ UNCHANGED <<connections, heap, procs, vault, wsFile, globalCfg, tasks, health>>
          /\ ~last'.fired
    ]_vars
\* disconnect has just returned on an entry that was Disconnected already
C12_Witness ==
  \E n \in Names :
    /\ Has(connections, n) /\ StatusOf(n) = Disconnected
    /\ last = Did("disconnect", n, "not connected", FALSE)

\* disconnect task t ends in this step without an exception
DisconnectEnds(t) ==
  /\ t.kind = "disconnect"
  /\ last'.op \in {"disconnect.closed", "disconnect.finish"}
  /\ last'.name = t.name /\ last'.result = "disconnected"
  /\ tasks' = Remove(tasks, t)
  /\ t.obj \in DOMAIN heap'
\* C13: when a disconnect ends without an exception its entry is Disconnected
\* with no mount point, no process id and no RC port, and the notification
\* has fired.
C13_DisconnectClears ==
  [][ \A t \in BagToSet(tasks) :
        DisconnectEnds(t) =>
          /\ heap'[t.obj].status = Disconnected
          /\ heap'[t.obj].mountedDrive = ""
          /\ heap'[t.obj].processId = 0
          /\ heap'[t.obj].rcPort = 0
          /\ last'.fired
    ]_vars

\* C14: when the unmount of a disconnect returns with the process it was to
\* end still running, the entry ends in Error with a message.
C14_KillFailureIsError ==
  [][ \A t \in BagToSet(tasks) :
        (t.kind = "disconnect" /\ t.pc = "unmount" /\ last'.op = "disconnect.finish" /\
         last'.name = t.name /\ tasks' = Remove(tasks, t) /\ t.obj \in DOMAIN heap' /\
         Running(t.pid) /\ procs'[t.pid] = procs[t.pid]) =>
          (heap'[t.obj].status = Error /\ heap'[t.obj].error # "")
    ]_vars

\* the names the disconnectAll calls in flight are disconnecting or still hold
TakenUp(tsks) ==
  UNION {{t.name} \cup Range(t.queue) : t \in {u \in BagToSet(tsks) : u.kind = "disconnectAll"}}
\* disconnectAll task t has gone on in this step behind the disconnect it awaited
ElementDone(t) ==
  /\ t.kind = "disconnectAll"
  /\ last'.op = "disconnectAll.resume" /\ last'.result # "unmount"
  /\ CopiesIn(t, tasks') < CopiesIn(t, tasks)
\* C15: disconnectAll takes up every entry that is Connected or Connecting
\* when it is called (it disconnects it at once or holds its name to do so),
\* and each entry it has disconnected is neither Connected nor Connecting and
\* its process is no longer running.
C15_DisconnectAllReachesAll ==
  [][ /\ (calls' = calls + 1 /\ last'.op = "disconnectAll") =>
          \A n \in Names3 :
            (Has(connections, n) /\ StatusOf(n) \in {Connected, Connecting}) =>
              \/ n \in TakenUp(tasks')
              \/ heap'[Ref(connections, n)].status \notin {Connected, Connecting}
      /\ \A t \in BagToSet(tasks) :
           ElementDone(t) =>
             /\ t.obj \in DOMAIN heap' => heap'[t.obj].status \notin {Connected, Connecting}
             /\ t.pid \in DOMAIN procs => procs'[t.pid].state \notin {"starting", "mounted"}
    ]_vars

\* C16: when a disconnect inside disconnectAll throws, no name the loop still
\* held behind it is left Connected without its disconnect having been called.
C16_FailureDoesNotBlock ==
  [][ \A t \in BagToSet(tasks) :
        (ElementDone(t) /\ last'.result = "throw") =>
          \A i, k \in DOMAIN t.queue :
            (t.queue[k] = last'.name /\ k < i) =>
              ~(Has(connections', t.queue[i]) /\
                heap'[Ref(connections', t.queue[i])].status = Connected)
    ]_vars

\* connect task t holds its password as of this step
Holds(t) ==
  /\ t.kind = "connect" /\ t.pc = "obscure"
  /\ CopiesIn(t, tasks') > CopiesIn(t, tasks)
\* C17: a connect that is let in goes on with the password of the workspace
\* file if its entry has scope workspace and the file holds one for the name,
\* else with the vault's password for the name if there is one, and prompts
\* only if there is neither; after the prompt it goes on with the value typed.
C17_PasswordPrecedence ==
  [][ /\ \A n \in Names :
           (calls' = calls + 1 /\ last' = Did("connect", n, "begin", TRUE)) =>
             LET file == IF Entry(n).scope = "workspace" THEN PasswordsInFile(n) ELSE ""
             IN \E t \in BagToSet(tasks') :
                  /\ t.kind = "connect" /\ t.name = n
                  /\ CopiesIn(t, tasks') > CopiesIn(t, tasks)
                  /\ IF file # "" THEN t.pc = "obscure" /\ t.password = file
                     ELSE IF vault[n] # "" THEN t.pc = "obscure" /\ t.password = vault[n]
                     ELSE t.pc = "prompt"
      /\ (last'.op = "connect.prompt" /\ last'.result = "stored") =>
           \E t \in BagToSet(tasks') :
             Holds(t) /\ t.name = last'.name /\ t.password = "typed"
    ]_vars
\* connect has been let in on a global entry whose name has a password in the
\* workspace file
C17_Witness ==
  \E n \in Names :
    /\ Has(connections, n) /\ Entry(n).scope = "global" /\ PasswordsInFile(n) # ""
    /\ last = Did("connect", n, "begin", TRUE)

\* the prompt of connect task t has returned in this step with the given result
PromptReturns(t, result) ==
  /\ t.kind = "connect" /\ t.pc = "prompt"
  /\ last'.op = "connect.prompt" /\ last'.name = t.name /\ last'.result = result
  /\ CopiesIn(t, tasks') < CopiesIn(t, tasks)
\* C18: when the prompt of a connect returns a password, the vault holds it
\* under the name connect was called with, the passwordSource of the entry
\* the connect works on is secret, and neither the workspace file nor the
\* settings are written.
C18_PromptedPasswordToVault ==
  [][ \A t \in BagToSet(tasks) :
        PromptReturns(t, "stored") =>
          /\ vault'[t.name] = "typed"
          /\ heap'[t.obj].passwordSource = "secret"
          /\ wsFile' = wsFile /\ globalCfg' = globalCfg
    ]_vars
\* the prompt has just returned a password for an entry the table holds
C18_Witness ==
  \E n \in Names :
    /\ Has(connections, n) /\ Entry(n).passwordSource = "secret"
    /\ vault[n] = "typed"
    /\ last = Did("connect.prompt", n, "stored", FALSE)

\* C20: when the prompt of a connect returns nothing, the entry the connect
\* works on is in Error with a message, its mount point is the one it had,
\* no process is spawned, the vault is as it was, and the notification fires.
C20_NoPasswordIsError ==
  [][ \A t \in BagToSet(tasks) :
        PromptReturns(t, "error") =>
          /\ t.obj \in DOMAIN heap' =>
               /\ heap'[t.obj].status = Error
               /\ heap'[t.obj].error # ""
               /\ heap'[t.obj].mountedDrive = heap[t.obj].mountedDrive
          /\ procs' = procs /\ vault' = vault
          /\ last'.fired
    ]_vars
\* the prompt has just been cancelled for an entry the table holds
C20_Witness ==
  \E n \in Names :
    /\ Has(connections, n) /\ StatusOf(n) = Error
    /\ Entry(n).error = "Password is required"
    /\ Entry(n).mountedDrive = "" /\ vault[n] = ""
    /\ last = Did("connect.prompt", n, "error", TRUE)

\* the passwordSource the stores give the entry under n
Derived(n) ==
  IF Entry(n).scope = "workspace" /\ PasswordsInFile(n) # "" THEN "workspace"
  ELSE IF vault[n] # "" THEN "secret"
  ELSE "none"
\* C19: while no operation is in flight, the passwordSource of every entry is
\* the one the stores give it: workspace if the entry has scope workspace and
\* the file holds a password for its name, else secret if the vault holds
\* one, else none.
C19_PasswordSourceDerived ==
  (tasks = EmptyBag /\ ~health.active) =>
    \A n \in Names : Has(connections, n) => Entry(n).passwordSource = Derived(n)

\* connect task t ends in this step at the timeout of waitForMount
TimedOut(t) ==
  /\ t.kind = "connect" /\ t.pc = "waitForMount"
  /\ last' = Did("connect.finish", t.name, "error", TRUE)
  /\ CopiesIn(t, tasks') < CopiesIn(t, tasks)
\* C21: when waitForMount of a connect times out, the rclone process that
\* connect spawned is no longer running once the entry is in Error.
C21_TimeoutKillsProcess ==
  [][ \A t \in BagToSet(tasks) :
        TimedOut(t) => procs'[t.pid].state \notin {"starting", "mounted"}
    ]_vars

\* the drive letters this process uses: the mounts of its rclone processes,
\* coming up or up, and the mount points its entries hold
InUse ==
  ({procs[p].drive : p \in {q \in Pids : Running(q)}} \cup
   {heap[o].mountedDrive : o \in MapObjs(connections)}) \ {""}
Occupied == HostDrives \cup InUse
\* connect task t chooses its drive letter in this step
Chooses(t) ==
  /\ t.kind = "connect" /\ t.pc = "obscure"
  /\ last'.op = "connect.mount" /\ last'.name = t.name
  /\ CopiesIn(t, tasks') < CopiesIn(t, tasks)
Pinned(t) == heap[t.obj].config.driveLetter # ""
\* the processes spawned in this step
SpawnedNow == {p \in Pids : procs[p].state = "none" /\ procs'[p].state # "none"}
\* C22: a connect whose config pins a drive letter spawns its mount on that
\* letter only if the letter is neither present on the host nor in use by
\* this process, and ends Connected on it only with its own mount up on it;
\* when the letter is taken it spawns nothing.
C22_PinnedVerifiedFree ==
  [][ \A t \in BagToSet(tasks) :
        /\ (Chooses(t) /\ Pinned(t) /\ heap[t.obj].config.driveLetter \in Occupied) =>
             SpawnedNow = {}
        /\ (t.kind = "connect" /\ t.pc = "waitForMount" /\
            last' = Did("connect.finish", t.name, "connected", TRUE) /\
            CopiesIn(t, tasks') < CopiesIn(t, tasks) /\ Pinned(t)) =>
             procs[t.pid] = [drive |-> t.drive, state |-> "mounted"]
    ]_vars

\* the first letter of the pool outside occ, or none
FirstFree(occ) ==
  LET free == {i \in DOMAIN DRIVE_LETTERS : DRIVE_LETTERS[i] \notin occ}
  IN IF free = {} THEN ""
     ELSE DRIVE_LETTERS[CHOOSE i \in free : \A j \in free : i <= j]
\* C23: a connect without a pinned letter spawns its mount on the first
\* letter of Z, Y, ..., C that is neither present on the host nor in use by
\* this process; when no letter of the pool is free it spawns nothing and its
\* entry ends in Error.
C23_FirstFreeLetter ==
  [][ \A t \in BagToSet(tasks) :
        (Chooses(t) /\ ~Pinned(t)) =>
          /\ \A p \in SpawnedNow :
               /\ procs'[p].drive = FirstFree(Occupied)
               /\ procs'[p].drive \in Range(DRIVE_LETTERS)
          /\ FirstFree(Occupied) = "" =>
               /\ SpawnedNow = {}
               /\ t.obj \in DOMAIN heap' => heap'[t.obj].status = Error
    ]_vars

\* the stores ws and gl hold a config under the name n
Stored(ws, gl, n) ==
  (\E i \in DOMAIN ws : ws[i].name = n) \/ (\E i \in DOMAIN gl : gl[i].name = n)
\* C24: while an updateConnection is in flight, the config it moves is in the
\* workspace file or in the settings, under its old name or its new one.
C24_InSomeBackend ==
  \A t \in BagToSet(tasks) :
    t.kind = "update" =>
      (Stored(wsFile, globalCfg, t.name) \/ Stored(wsFile, globalCfg, t.cfg.name))

\* how many configs the list holds under the name n
CountIn(list, n) == Cardinality({i \in DOMAIN list : list[i].name = n})
\* C25: with no operation in flight, every name is stored at most once in the
\* workspace file and the settings taken together, and the names stored are
\* the names of the table.
C25_StoredOnce ==
  tasks = EmptyBag =>
    \A n \in Names :
      /\ CountIn(wsFile, n) + CountIn(globalCfg, n) <= 1
      /\ Stored(wsFile, globalCfg, n) <=> Has(connections, n)

\* updateConnection task t, which moves its entry to the workspace file, ends
\* in this step
MovedBack(t) ==
  /\ t.kind = "update" /\ t.scope = "workspace"
  /\ last' = Did("update.resume", t.name, "updated", TRUE)
  /\ CopiesIn(t, tasks') < CopiesIn(t, tasks)
\* C26: when an entry stored without a password has been moved from the
\* workspace file to the settings and back, the table holds it with the config
\* it started with and scope workspace, the workspace file holds that config
\* once under its name, and the settings hold none under its name.
C26_ScopeRoundTrip ==
  [][ \A t \in BagToSet(tasks) :
        MovedBack(t) =>
          /\ Has(connections', t.name)
          /\ heap'[Ref(connections', t.name)].config = Original(t.name)
          /\ heap'[Ref(connections', t.name)].scope = "workspace"
          /\ CountIn(wsFile', t.name) = 1
          /\ \A i \in DOMAIN wsFile' : wsFile'[i].name = t.name => wsFile'[i] = Original(t.name)
          /\ CountIn(globalCfg', t.name) = 0
    ]_vars
\* an entry has just come back to the workspace file from the settings
C26_Witness ==
  \E n \in Names :
    /\ last = Did("update.resume", n, "updated", TRUE)
    /\ updates = MaxUpdates
    /\ Has(connections, n) /\ Entry(n).scope = "workspace" /\ Entry(n).config = Original(n)
    /\ CountIn(wsFile, n) = 1 /\ CountIn(globalCfg, n) = 0

\* updateConnection task t, a rename, ends in this step behind its reads and
\* writes of the vault
Renamed(t) ==
  /\ t.kind = "update" /\ t.pc = "vault" /\ t.name # t.cfg.name
  /\ last' = Did("update.resume", t.name, "updated", TRUE)
  /\ CopiesIn(t, tasks') < CopiesIn(t, tasks)
\* C27: when updateConnection has renamed an entry, the vault holds under the
\* new name the password it held under the old name and nothing under the old
\* name; if it held nothing under the old name it is as it was; the passwords
\* of other names are as they were.
C27_RenameMovesPassword ==
  [][ \A t \in BagToSet(tasks) :
        Renamed(t) =>
          /\ vault[t.name] # "" =>
               (vault'[t.cfg.name] = vault[t.name] /\ vault'[t.name] = "")
          /\ vault[t.name] = "" => vault' = vault
          /\ \A n \in Names \ {t.name, t.cfg.name} : vault'[n] = vault[n]
    ]_vars
\* a rename has just moved a password to the new name of its entry
C27_Witness ==
  \E n, m \in Names :
    /\ n # m
    /\ last = Did("update.resume", n, "updated", TRUE)
    /\ Has(connections, m) /\ ~Has(connections, n)
    /\ vault[m] # "" /\ vault[n] = ""

\* the other store than the one of the given scope is left as it is
OtherUnchanged(scope) ==
  IF scope = "workspace" THEN globalCfg' = globalCfg ELSE wsFile' = wsFile
\* the list the store of the given scope holds, before and after the step
ListOf(scope) == IF scope = "workspace" THEN wsFile ELSE globalCfg
ListAfter(scope) == IF scope = "workspace" THEN wsFile' ELSE globalCfg'
\* C28: addConnection writes the config to the store of the scope it is given,
\* or without one to the workspace file if the window has a folder and to the
\* settings otherwise, and leaves the other store as it is; removeConnection
\* writes the store of the entry's scope only; updateConnection without a
\* change of scope writes the store of the entry's scope only.
C28_OneBackend ==
  [][ /\ \A cfg \in AddConfigs, scope \in UpdateScopes :
           (AddConnection(cfg, scope) /\ ~Has(connections, cfg.name)) =>
             LET target == IF scope # "" THEN scope
                           ELSE IF workspaceFolders > 0 THEN "workspace" ELSE "global"
             IN /\ OtherUnchanged(target)
                /\ (target = "global" \/ workspaceFolders > 0) =>
                     ListAfter(target) = Append(ListOf(target), WithoutPassword(cfg))
      /\ \A t \in BagToSet(tasks) :
           /\ (t.kind = "removeConnection" /\ RemoveResume(t)) =>
                /\ OtherUnchanged(heap[t.obj].scope)
                /\ t.pc = "deletePassword" =>
                     ListAfter(heap[t.obj].scope) = FilterOut(ListOf(heap[t.obj].scope), t.name)
           /\ (t.kind = "update" /\ UpdateResume(t) /\ ~ScopeChanged(t, heap[t.obj])) =>
                OtherUnchanged(heap[t.obj].scope)
      /\ \A n \in Names : \A cfg \in UpdateConfigs(n), scope \in UpdateScopes :
           (UpdateConnection(n, cfg, scope) /\ Has(connections, n) /\
            (scope = "" \/ scope = Entry(n).scope)) =>
             /\ OtherUnchanged(Entry(n).scope)
             /\ ListAfter(Entry(n).scope) = Put(ListOf(Entry(n).scope), n, WithoutPassword(cfg))
    ]_vars
\* addConnection has written the settings in a window without a folder
C28_Witness ==
  /\ workspaceFolders = 0 /\ wsFile = <<>>
  /\ last.op = "addConnection" /\ last.result = "save"
  /\ CountIn(globalCfg, last.name) = 1

\* C29: in the table an observer reads at a change notification, no entry is
\* Connected with its mount point, process id or RC port unset, and no entry
\* is Disconnected with any of them still set.
C29_NoPartialTable ==
  last.fired =>
    \A n \in Names :
      Has(connections, n) =>
        /\ StatusOf(n) = Connected =>
             (Entry(n).mountedDrive # "" /\ Entry(n).processId # 0 /\ Entry(n).rcPort # 0)
        /\ StatusOf(n) = Disconnected =>
             (Entry(n).mountedDrive = "" /\ Entry(n).processId = 0 /\ Entry(n).rcPort = 0)

\* connect task t takes a step, its name no longer in the table
ResumesRemoved(t) ==
  /\ t.kind = "connect" /\ ~Has(connections, t.name)
  /\ CopiesIn(t, tasks') < CopiesIn(t, tasks)
\* C30: a connect that resumes when removeConnection has taken its name out
\* of the table spawns no process, writes neither its Connection object nor the
\* vault, and leaves no process of its own running.
C30_NothingAfterRemove ==
  [][ \A t \in BagToSet(tasks) :
        ResumesRemoved(t) =>
          /\ SpawnedNow = {}
          /\ t.pid # 0 => procs'[t.pid].state \notin {"starting", "mounted"}
          /\ t.obj \in DOMAIN heap' => heap'[t.obj] = heap[t.obj]
          /\ vault' = vault
    ]_vars

\* C31: a probe that returns for an entry that is no longer Connected leaves
\* the entry's status, error, mount point, process id and RC port as they are.
C31_MonitorWritesConnectedOnly ==
  [][ (ProbeStep /\ Probed \in DOMAIN heap' /\ heap[Probed].status # Connected) =>
        /\ heap'[Probed].status = heap[Probed].status
        /\ heap'[Probed].error = heap[Probed].error
        /\ heap'[Probed].mountedDrive = heap[Probed].mountedDrive
        /\ heap'[Probed].processId = heap[Probed].processId
        /\ heap'[Probed].rcPort = heap[Probed].rcPort
    ]_vars

\* reading the workspace file throws
FileBroken == wsFile # <<>> /\ Head(wsFile) = Unparsable
\* the table holds one entry per name of the settings and no other entry,
\* each with scope global
OnlyGlobal(conns, h) ==
  /\ \A i \in DOMAIN conns : InGl(conns[i].name)
  /\ \A n \in Names : InGl(n) => Cardinality({i \in DOMAIN conns : conns[i].name = n}) = 1
  /\ \A i \in DOMAIN conns : h[conns[i].obj].scope = "global"
C33_NothingThrown == last.result # "throw"

\* C34: no step of testConnection, whatever its outcome, changes the table,
\* an entry, the workspace file, the settings or the vault, spawns a process
\* or fires the change notification.
C34_TestPersistsNothing ==
  [][ last'.op \in {"testConnection", "testConnection.prompt", "testConnection.test"} =>
        /\ UNCHANGED <<connections, heap, wsFile, globalCfg, vault, procs>>
        /\ ~last'.fired
    ]_vars
\* the prompt of testConnection has just returned a password for a name that
\* has none in the vault
C34_Witness ==
  \E t \in BagToSet(tasks) :
    /\ t.kind = "testConnection" /\ t.pc = "test" /\ t.password = "typed"
    /\ last = Did("testConnection.prompt", t.name, "typed", FALSE)
    /\ vault[t.name] = ""

\* C35: when connect makes the entry of the table Connected, the entry's
\* count of consecutive probe failures is 0.
C35_ConnectedCountsFromZero ==
  [][ \A t \in BagToSet(tasks) :
        (/\ ConnectFinish(t)
         /\ last'.result = "connected"
         /\ Has(connections, t.name)
         /\ Ref(connections, t.name) = t.obj) =>
          heap'[t.obj].healthCheckFailCount = 0
    ]_vars

\* the entries of the table that are Connected with p as their process
HandlesOf(p) ==
  {i \in DOMAIN connections :
     /\ heap[connections[i].obj].status = Connected
     /\ heap[connections[i].obj].processId = p}
\* C36: whenever no operation and no health check is in flight, every rclone
\* process that was spawned and is still running is the process of exactly
\* one Connected entry of the table.
C36_NoOrphanProcess ==
  (tasks = EmptyBag /\ ~health.active) =>
    \A p \in Spawned : Running(p) => Cardinality(HandlesOf(p)) = 1

\* a connect ends in this step: at the prompt, at the spawn or after the poll
ConnectEnds(t) ==
  /\ t.kind = "connect"
  /\ ConnectPrompted(t) \/ ConnectMount(t) \/ ConnectFinish(t)
  /\ last'.result \in {"connected", "error"}
\* C37: when a connect ends, the entry the table holds under its name is
\* Connected with the drive and process of that connect, or Error, also when
\* refresh or updateConnection replaced the entry while connect was suspended.
C37_OutcomeOnTableEntry ==
  [][ \A t \in BagToSet(tasks) :
        (ConnectEnds(t) /\ Has(connections', t.name)) =>
          LET e == heap'[Ref(connections', t.name)]
          IN IF last'.result = "connected"
             THEN e.status = Connected /\ e.mountedDrive = t.drive /\ e.processId = t.pid
             ELSE e.status = Error
    ]_vars

\* a connect or a disconnect on n is in flight
InFlight(n) ==
  \E t \in BagToSet(tasks) : t.name = n /\ t.kind \in {"connect", "disconnect"}
\* no entry of the table under n is Connecting or Disconnecting
NoTransient(n) ==
  \A i \in DOMAIN connections :
    connections[i].name = n =>
      heap[connections[i].obj].status \notin {Connecting, Disconnecting}
\* C38: the prompt, the spawn, the poll and the kill each returning, every
\* connect and every disconnect in flight on a name ends, and when nothing is
\* in flight on a name its entry is neither Connecting nor Disconnecting.
C38_Terminates ==
  /\ \A n \in Names : InFlight(n) ~> ~InFlight(n)
  /\ [](\A n \in Names : ~InFlight(n) => NoTransient(n))
\* a connect and a disconnect have both run to their end on the same entry
C38_Witness ==
  /\ tasks = EmptyBag
  /\ last.op = "disconnect.finish"
  /\ \E p \in Spawned : ~Running(p)
  /\ Has(connections, last.name) /\ StatusOf(last.name) = Disconnected

\* the configs stored under the name y in a list
StoredAs(list, y) == SelectSeq(list, LAMBDA c : c.name = y)
\* the entries the table holds under the name y
EntriesOf(conns, h, y) ==
  {h[conns[i].obj] : i \in {j \in DOMAIN conns : conns[j].name = y}}
\* every name outside S keeps its table entry, its stored configs and its
\* vault entry in this step
Frame(S) ==
  \A y \in Names \ S :
    /\ EntriesOf(connections', heap', y) = EntriesOf(connections, heap, y)
    /\ StoredAs(wsFile', y) = StoredAs(wsFile, y)
    /\ StoredAs(globalCfg', y) = StoredAs(globalCfg, y)
    /\ vault'[y] = vault[y]
\* C39: every step of addConnection, updateConnection and removeConnection
\* on X leaves the table entry, the stored config (embedded password
\* included) and the vault entry of every name other than X's old and new
\* name as they were.
C39_OthersUnchanged ==
  [][ /\ \A cfg \in AddConfigs, scope \in UpdateScopes :
           AddConnection(cfg, scope) => Frame({cfg.name})
      /\ \A n \in Names :
           /\ RemoveConnection(n) => Frame({n})
           /\ \A cfg \in UpdateConfigs(n), scope \in UpdateScopes :
                UpdateConnection(n, cfg, scope) => Frame({n, cfg.name})
      /\ \A t \in BagToSet(tasks) :
           (/\ t.kind \in {"addConnection", "update", "removeConnection"}
            /\ \/ AddResume(t) \/ UpdateResume(t) \/ RemoveResume(t)
               \/ DisconnectClosed(t) \/ DisconnectFinish(t)) =>
             Frame({t.name} \cup (IF t.kind = "update" THEN {t.cfg.name} ELSE {}))
    ]_vars

\* the rclone process of the Connected entry n is gone, and nothing answers
\* on the RC port of its drive letter
BackendDead(n) ==
  /\ IsConnected(n)
  /\ Entry(n).processId # 0 /\ ~Running(Entry(n).processId)
  /\ Entry(n).mountedDrive # "" /\ ~PortAnswers(RcPortOf(Entry(n).mountedDrive))
\* C10: a Connected entry whose backend is dead for good (its process gone and
\* its RC port silent from then on) is eventually no longer Connected, the
\* health check ticking on.
C10_DeadBackendDetected ==
  \A n \in Names :
    BackendDead(n) ~>
      (~IsConnected(n) \/ PortAnswers(RcPortOf(Entry(n).mountedDrive)))

\* the health check's interval keeps firing and every probe returns
LiveSpec == Spec /\ WF_vars(HealthCheck) /\ WF_vars(HealthProbe)

====
